---- MODULE Spec2Model ----
(***************************************************************************)
(* Model of the storefront route modules:                                  *)
(*   - the orders route (loader, Orders view, OrdersTable, the GraphQL     *)
(*     fragment that selects the fields of the response);                  *)
(*   - CollectionTemplate and ProductItem.                                 *)
(* JavaScript scalars are strings; undefined and null are the two sentinel *)
(* strings below; objects are records tagged with a field t where a value  *)
(* may also be undefined or null.                                          *)
(***************************************************************************)
EXTENDS Integers, Sequences, FiniteSets, TLC

VARIABLES pc, request, session, context, navFrom, sent, reply, fault, result,
          escaped, view, products, grid

vars == <<pc, request, session, context, navFrom, sent, reply, fault, result,
          escaped, view, products, grid>>

orderVars == <<pc, request, session, context, navFrom, sent, reply, fault,
               result, escaped, view>>

collectionVars == <<products, grid>>

(* ------------------------------ bounds -------------------------------- *)

\* Orders on one page of the remote connection.
MaxOrders == 2

\* Products in the connection handed to CollectionTemplate.
MaxProducts == 10

\* Loader invocations that may be in flight at the same time.
Invocations == {"r1", "r2"}

(* --------------------------- JavaScript values ------------------------ *)

Undefined == "<undefined>"

Null == "<null>"

UndefinedValue == [t |-> "undefined"]

NullValue == [t |-> "null"]

None == [kind |-> "none"]

\* JavaScript truthiness of a string-or-nullish scalar: !v
Falsy(v) == v \in {Undefined, Null, ""}

\* v ?? d
Coalesce(v, d) == IF v \in {Undefined, Null} THEN d ELSE v

(* ------------------------------ inputs -------------------------------- *)

\* What session.get('customerAccessToken') can hold.
SessionValues ==
    { UndefinedValue, [t |-> "object"] }
      \cup { [t |-> "object", accessToken |-> a] : a \in {"", "tokA", "tokB"} }

Locales ==
    { [language |-> "EN", country |-> "US"], [language |-> "FR", country |-> "CA"] }

\* The request-scoped context: context.i18n and context.storefront.i18n.
Contexts == { [i18n |-> l, storefront |-> [i18n |-> l]] : l \in Locales }

\* The query string of a request: searchParams.get() of an absent key is null.
Requests ==
    { [direction |-> Null, cursor |-> Null],
      [direction |-> "next", cursor |-> "c0"],
      [direction |-> "previous", cursor |-> "c0"] }

\* A string where a value of any type may stand (a thrown value, a JSON field).
Str(s) == [t |-> "string", v |-> s]

\* new Error(message)
Error(message) == [t |-> "Error", message |-> Str(message)]

\* Values a rejected promise or a throw can carry.
Thrown ==
    { Error("Network error"), Error(""),
      Str("timeout"),
      [t |-> "object", code |-> "E_CONN"],
      NullValue }

\* Values thrown by session.get or getPaginationVariables.
Faults == { Error("Bad request"), Str("session store down") }

\* Page-info values of the remote connection (all four fields exist remotely).
RemotePageInfos ==
    { [hasPreviousPage |-> FALSE, hasNextPage |-> TRUE,
       startCursor |-> "s1", endCursor |-> "e1"],
      [hasPreviousPage |-> TRUE, hasNextPage |-> TRUE,
       startCursor |-> "s2", endCursor |-> "e2"],
      [hasPreviousPage |-> TRUE, hasNextPage |-> FALSE,
       startCursor |-> "s3", endCursor |-> "e3"] }

EmptyPageInfo ==
    [hasPreviousPage |-> FALSE, hasNextPage |-> FALSE,
     startCursor |-> Null, endCursor |-> Null]

RemoteOrder(k) == [id |-> k, orderNumber |-> 1000 + k]

RemoteCustomer(n, pi) ==
    [t |-> "object", numberOfOrders |-> n,
     orders |-> [nodes |-> [k \in 1..n |-> RemoteOrder(k)], pageInfo |-> pi]]

\* What the remote API may hold for a token: no customer, or a customer with
\* one page of orders.
RemoteCustomers ==
    { NullValue, RemoteCustomer(0, EmptyPageInfo) }
      \cup { RemoteCustomer(n, pi) : n \in 1..MaxOrders, pi \in RemotePageInfos }

(* ------------------------- external collaborators --------------------- *)

\* localizePath(path, i18n): the path under the locale of the request.
localizePath(path, i18n) == <<i18n.language>> \o path

\* redirect(url)
redirect(url) == [kind |-> "redirect", status |-> 302, location |-> url]

\* json(data, {status}): the status defaults to 200.
json(data, status) == [kind |-> "json", status |-> status, body |-> data]

\* getPaginationVariables(request, {pageBy})
getPaginationVariables(req, pageBy) ==
    IF req.direction = "previous"
    THEN [last |-> pageBy, startCursor |-> Coalesce(req.cursor, Null)]
    ELSE [first |-> pageBy, endCursor |-> Coalesce(req.cursor, Null)]

\* {...a, ...b}: the keys of b win.
Spread(a, b) == b @@ a

(* ------------------------------- loader ------------------------------- *)

PageBy == 20

LoginPath == <<"account", "login">>

\* Variant: the session of the first request served is kept at module level.
SessionOfShared(i) == IF session["r1"] = None THEN session[i] ELSE session["r1"]

\* const {session, storefront} = context: the context of this invocation.
SessionOf(i) == session[i]

StorefrontOf(i) == context[i].storefront

\* customerAccessToken?.accessToken
AccessTokenOf(tok) ==
    IF tok.t \in {"undefined", "null"} THEN Undefined
    ELSE IF "accessToken" \in DOMAIN tok THEN tok.accessToken
    ELSE Undefined

\* Variant: only the presence of customerAccessToken is tested.
UnauthenticatedPresenceOnly(tok) == tok.t \in {"undefined", "null"}

\* !customerAccessToken?.accessToken
Unauthenticated(tok) == Falsy(AccessTokenOf(tok))

LoginRedirect(i) == redirect(localizePath(LoginPath, context[i].i18n))

\* Variant: the pagination variables are not spread into the variables.
QueryVariablesNoPagination(i, paginationVariables) ==
    [customerAccessToken |-> AccessTokenOf(session[i]),
     country |-> context[i].storefront.i18n.country,
     language |-> context[i].storefront.i18n.language]

\* The variables of the storefront query.
QueryVariables(i, paginationVariables) ==
    Spread([customerAccessToken |-> AccessTokenOf(SessionOf(i)),
            country |-> StorefrontOf(i).i18n.country,
            language |-> StorefrontOf(i).i18n.language],
           paginationVariables)

\* The fields CUSTOMER_FRAGMENT selects under orders.pageInfo.
PageInfoSelection == {"hasPreviousPage", "hasNextPage", "endCursor"}

OrderSelection == {"id", "orderNumber"}

Select(obj, fields) == [f \in (DOMAIN obj) \cap fields |-> obj[f]]

\* The data of the response: the remote customer seen through the fragment.
CustomerOrders(remote) ==
    IF remote.t = "null" THEN NullValue
    ELSE [t |-> "object",
          numberOfOrders |-> remote.numberOfOrders,
          orders |->
            [nodes |-> [k \in DOMAIN remote.orders.nodes |->
                          Select(remote.orders.nodes[k], OrderSelection)],
             pageInfo |-> Select(remote.orders.pageInfo, PageInfoSelection)]]

\* Variant: no instanceof test, the caught value is always passed through.
CatchRawOnly(error) == json([error |-> error], 400)

\* Variant: the {status: 400} argument is left out.
CatchDefaultStatus(error) ==
    IF error.t = "Error"
    THEN json([error |-> error.message], 200)
    ELSE json([error |-> error], 200)

\* catch (error): the 400 response.
Catch(error) ==
    IF error.t = "Error"
    THEN json([error |-> error.message], 400)
    ELSE json([error |-> error], 400)

\* Variant: no test of the customer.
OnCustomerUnchecked(customer) == json([customer |-> customer], 200)

\* The rest of the try block once the query has returned {customer}.
OnCustomer(customer) ==
    IF customer.t = "null"
    THEN Catch(Error("Customer not found"))
    ELSE json([customer |-> customer], 200)

\* Variant: the session read is inside the try block.
OnSessionRejectCaught(error) ==
    [pc |-> "done", result |-> json([error |-> error], 400), escaped |-> None]

\* A rejection of session.get: the await is outside the try block.
OnSessionReject(error) ==
    [pc |-> "thrown", result |-> None, escaped |-> error]

\* A throw of getPaginationVariables: inside the try block.
OnPaginationThrow(error) ==
    [pc |-> "done", result |-> Catch(error), escaped |-> None]

(* -------------------------------- views ------------------------------- *)

EmptyOrders == [kind |-> "EmptyOrders"]

OrderItem(order) == [kind |-> "OrderItem", order |-> order.id]

\* The link of the pagination helper: the current search parameters with the
\* direction set, and the cursor set when the page-info has one.
PageLink(search, direction, cursor) ==
    [direction |-> direction,
     cursor |-> IF Falsy(cursor) THEN search.cursor ELSE cursor]

Field(obj, f) == IF f \in DOMAIN obj THEN obj[f] ELSE Undefined

\* <Pagination connection={orders}>: nodes and the two links.
Pagination(connection, search) ==
    [nodes |-> connection.nodes,
     PreviousLink |->
        IF connection.pageInfo.hasPreviousPage
        THEN PageLink(search, "previous", Field(connection.pageInfo, "startCursor"))
        ELSE None,
     NextLink |->
        IF connection.pageInfo.hasNextPage
        THEN PageLink(search, "next", Field(connection.pageInfo, "endCursor"))
        ELSE None]

\* Variant: the table is rendered only from the second order on.
OrdersTableOffByOne(orders, search) ==
    IF Len(orders.nodes) > 1
    THEN [kind |-> "OrdersTable",
          PreviousLink |-> None,
          items |-> [k \in DOMAIN orders.nodes |-> OrderItem(orders.nodes[k])],
          NextLink |-> None]
    ELSE EmptyOrders

OrdersTable(orders, search) ==
    IF Len(orders.nodes) # 0
    THEN LET p == Pagination(orders, search) IN
         [kind |-> "OrdersTable",
          PreviousLink |-> p.PreviousLink,
          items |-> [k \in DOMAIN p.nodes |-> OrderItem(p.nodes[k])],
          NextLink |-> p.NextLink]
    ELSE EmptyOrders

Orders(customer, search) ==
    [kind |-> "Orders",
     numberOfOrders |-> customer.numberOfOrders,
     content |-> IF Len(customer.orders.nodes) # 0
                 THEN OrdersTable(customer.orders, search)
                 ELSE EmptyOrders]

(* ------------------------- collection template ----------------------- *)

\* Grid items rendered eagerly: index < 8.
EagerCount == 8

\* Variant: index <= 8.
LoadingOfInclusive(index) == IF index <= EagerCount THEN "eager" ELSE Undefined

\* loading={index < 8 ? 'eager' : undefined}
LoadingOf(index) == IF index < EagerCount THEN "eager" ELSE Undefined

\* <Image loading={loading}> is rendered only for a product with an image.
ProductItem(product, loading) ==
    [kind |-> "ProductItem",
     key |-> product.id,
     loading |-> loading,
     image |-> IF product.featuredImage
               THEN [kind |-> "Image", loading |-> loading]
               ELSE None]

\* The paginated section calls its child once per node, with a 0-based index.
PaginatedResourceSection(nodes) ==
    [k \in DOMAIN nodes |-> [node |-> nodes[k], index |-> k - 1]]

CollectionTemplate(nodes) ==
    LET calls == PaginatedResourceSection(nodes) IN
    [kind |-> "collection",
     items |-> [k \in DOMAIN calls |->
                  ProductItem(calls[k].node, LoadingOf(calls[k].index))]]

(* ------------------------------- state -------------------------------- *)

Init ==
    /\ pc = [i \in Invocations |-> "idle"]
    /\ request = [i \in Invocations |-> None]
    /\ session = [i \in Invocations |-> None]
    /\ context = [i \in Invocations |-> None]
    /\ navFrom = [i \in Invocations |-> None]
    /\ sent = [i \in Invocations |-> <<>>]
    /\ reply = [i \in Invocations |-> None]
    /\ fault = [i \in Invocations |-> None]
    /\ result = [i \in Invocations |-> None]
    /\ escaped = [i \in Invocations |-> None]
    /\ view = [i \in Invocations |-> None]
    /\ products = <<>>
    /\ grid = None

\* A request arrives and the loader runs up to await session.get(...).
Arrive(i) ==
    /\ pc[i] = "idle"
    /\ \E r \in Requests, s \in SessionValues, c \in Contexts :
          /\ request' = [request EXCEPT ![i] = r]
          /\ session' = [session EXCEPT ![i] = s]
          /\ context' = [context EXCEPT ![i] = c]
    /\ pc' = [pc EXCEPT ![i] = "awaitSession"]
    /\ UNCHANGED <<navFrom, sent, reply, fault, result, escaped, view,
                   collectionVars>>

\* session.get resolves: the token check, then either the redirect or the
\* query variables and the call of storefront.query.
SessionResolves(i) ==
    /\ pc[i] = "awaitSession"
    /\ IF Unauthenticated(SessionOf(i))
       THEN /\ result' = [result EXCEPT ![i] = LoginRedirect(i)]
            /\ pc' = [pc EXCEPT ![i] = "done"]
            /\ UNCHANGED sent
       ELSE /\ sent' = [sent EXCEPT ![i] = Append(@,
                          QueryVariables(i, getPaginationVariables(request[i], PageBy)))]
            /\ pc' = [pc EXCEPT ![i] = "awaitQuery"]
            /\ UNCHANGED result
    /\ UNCHANGED <<request, session, context, navFrom, reply, fault, escaped,
                   view, collectionVars>>

\* storefront.query resolves with the data the fragment selects.
QueryResolves(i) ==
    /\ pc[i] = "awaitQuery"
    /\ \E remote \in RemoteCustomers :
          /\ reply' = [reply EXCEPT ![i] = [kind |-> "data", customer |-> remote]]
          /\ result' = [result EXCEPT ![i] = OnCustomer(CustomerOrders(remote))]
    /\ pc' = [pc EXCEPT ![i] = "done"]
    /\ UNCHANGED <<request, session, context, navFrom, sent, fault, escaped,
                   view, collectionVars>>

\* storefront.query rejects.
QueryRejects(i) ==
    /\ pc[i] = "awaitQuery"
    /\ \E e \in Thrown :
          /\ reply' = [reply EXCEPT ![i] = [kind |-> "thrown", error |-> e]]
          /\ result' = [result EXCEPT ![i] = Catch(e)]
    /\ pc' = [pc EXCEPT ![i] = "done"]
    /\ UNCHANGED <<request, session, context, navFrom, sent, fault, escaped,
                   view, collectionVars>>

\* session.get rejects: nothing of the loader runs after line 24.
SessionRejects(i) ==
    /\ pc[i] = "awaitSession"
    /\ \E e \in Faults :
          LET o == OnSessionReject(e) IN
          /\ fault' = [fault EXCEPT ![i] = [at |-> "session", error |-> e]]
          /\ pc' = [pc EXCEPT ![i] = o.pc]
          /\ result' = [result EXCEPT ![i] = o.result]
          /\ escaped' = [escaped EXCEPT ![i] = o.escaped]
    /\ UNCHANGED <<request, session, context, navFrom, sent, reply, view,
                   collectionVars>>

\* session.get resolves with a token and getPaginationVariables throws.
PaginationThrows(i) ==
    /\ pc[i] = "awaitSession"
    /\ ~Unauthenticated(SessionOf(i))
    /\ \E e \in Faults :
          LET o == OnPaginationThrow(e) IN
          /\ fault' = [fault EXCEPT ![i] = [at |-> "pagination", error |-> e]]
          /\ pc' = [pc EXCEPT ![i] = o.pc]
          /\ result' = [result EXCEPT ![i] = o.result]
          /\ escaped' = [escaped EXCEPT ![i] = o.escaped]
    /\ UNCHANGED <<request, session, context, navFrom, sent, reply, view,
                   collectionVars>>

\* The route renders the loader's data: useLoaderData() then Orders().
RenderOrders(i) ==
    /\ pc[i] = "done"
    /\ result[i].kind = "json"
    /\ result[i].status = 200
    /\ view[i] = None
    /\ view' = [view EXCEPT ![i] = Orders(result[i].body.customer, request[i])]
    /\ UNCHANGED <<pc, request, session, context, navFrom, sent, reply, fault,
                   result, escaped, collectionVars>>

LinkOf(v, d) ==
    IF v.kind = "Orders" /\ v.content.kind = "OrdersTable"
    THEN IF d = "previous" THEN v.content.PreviousLink ELSE v.content.NextLink
    ELSE None

\* The user follows the previous or the next link of a rendered page: the
\* browser sends the link's query string with the same session and locale.
Navigate(i, j, d) ==
    /\ i # j
    /\ pc[i] = "done"
    /\ pc[j] = "idle"
    /\ LinkOf(view[i], d) # None
    /\ request' = [request EXCEPT ![j] = LinkOf(view[i], d)]
    /\ session' = [session EXCEPT ![j] = session[i]]
    /\ context' = [context EXCEPT ![j] = context[i]]
    /\ navFrom' = [navFrom EXCEPT ![j] =
                     [kind |-> "link", direction |-> d,
                      pageInfo |-> reply[i].customer.orders.pageInfo]]
    /\ pc' = [pc EXCEPT ![j] = "awaitSession"]
    /\ UNCHANGED <<sent, reply, fault, result, escaped, view, collectionVars>>

\* The response has been delivered and the request's data is dropped.
Discard(i) ==
    /\ pc[i] \in {"done", "thrown"}
    /\ pc' = [pc EXCEPT ![i] = "idle"]
    /\ request' = [request EXCEPT ![i] = None]
    /\ session' = [session EXCEPT ![i] = None]
    /\ context' = [context EXCEPT ![i] = None]
    /\ navFrom' = [navFrom EXCEPT ![i] = None]
    /\ sent' = [sent EXCEPT ![i] = <<>>]
    /\ reply' = [reply EXCEPT ![i] = None]
    /\ fault' = [fault EXCEPT ![i] = None]
    /\ result' = [result EXCEPT ![i] = None]
    /\ escaped' = [escaped EXCEPT ![i] = None]
    /\ view' = [view EXCEPT ![i] = None]
    /\ UNCHANGED collectionVars

Next ==
    \E i \in Invocations :
        \/ Arrive(i)
        \/ SessionResolves(i)
        \/ QueryResolves(i)
        \/ QueryRejects(i)
        \/ RenderOrders(i)
        \/ \E j \in Invocations, d \in {"previous", "next"} : Navigate(i, j, d)
        \/ Discard(i)

Spec == Init /\ [][Next]_vars

\* A product connection grows by one node (the next page is loaded).
LoadProduct ==
    /\ Len(products) < MaxProducts
    /\ \E img \in BOOLEAN :
          products' = Append(products,
                             [id |-> Len(products) + 1, featuredImage |-> img])
    /\ UNCHANGED <<grid, orderVars>>

\* CollectionTemplate renders the connection it is given.
RenderCollection ==
    /\ grid' = CollectionTemplate(products)
    /\ UNCHANGED <<products, orderVars>>

CollectionNext == LoadProduct \/ RenderCollection

CollectionSpec == Init /\ [][CollectionNext]_vars

\* The same system when the collaborators called before the query may throw.
FaultNext ==
    \/ Next
    \/ \E i \in Invocations : SessionRejects(i)
    \/ \E i \in Invocations : PaginationThrows(i)

FaultSpec == Init /\ [][FaultNext]_vars

(* =============================== claims =============================== *)

\* The session holds no usable token: no customerAccessToken, or one whose
\* accessToken is missing or empty.
HoldsNoToken(s) ==
    \/ s.t \in {"undefined", "null"}
    \/ "accessToken" \notin DOMAIN s
    \/ s.accessToken = ""

Started(i) == pc[i] # "idle"

Is200(r) == r.kind = "json" /\ r.status = 200

Is400(r) == r.kind = "json" /\ r.status = 400

\* The variables every query of the loader carries.
BaseVariables == {"customerAccessToken", "country", "language"}

\* C1: a request whose session holds no token, or a token whose accessToken
\* is missing or empty, never issues a storefront query, and the loader
\* returns a redirect to the localized /account/login path.
C1_UnauthenticatedRedirects ==
    \A i \in Invocations :
        (Started(i) /\ HoldsNoToken(session[i])) =>
            /\ sent[i] = <<>>
            /\ pc[i] # "awaitQuery"
            /\ pc[i] = "done" =>
                  /\ result[i].kind = "redirect"
                  /\ result[i].location =
                        localizePath(<<"account", "login">>, context[i].i18n)

C1_Witness ==
    \E i, j \in Invocations :
        /\ pc[i] = "done" /\ session[i] = [t |-> "object", accessToken |-> ""]
        /\ result[i].kind = "redirect"
        /\ pc[j] = "done" /\ session[j] = [t |-> "object"]
        /\ result[j].kind = "redirect"

C3_ThrownMapsTo400 ==
    \A i \in Invocations :
        (pc[i] = "done" /\ reply[i].kind = "thrown") =>
            /\ Is400(result[i])
            /\ LET e == reply[i].error IN
               IF e.t = "Error"
               THEN result[i].body = [error |-> e.message]
               ELSE result[i].body = [error |-> e]

C3_Witness ==
    \E i, j \in Invocations :
        /\ pc[i] = "done" /\ reply[i] = [kind |-> "thrown", error |-> Error("Network error")]
        /\ result[i].body.error = Str("Network error")
        /\ pc[j] = "done" /\ reply[j] = [kind |-> "thrown", error |-> Str("timeout")]
        /\ result[j].body.error = Str("timeout")

\* C4: a completed invocation is a redirect to the login path (exactly when
\* the session holds no token), or a 200 body {customer} with a non-null
\* customer and no error, or a 400 body {error} with no customer.
C4_ThreeOutcomes ==
    \A i \in Invocations :
        pc[i] = "done" =>
            /\ \/ result[i].kind = "redirect"
               \/ /\ Is200(result[i])
                  /\ DOMAIN result[i].body = {"customer"}
                  /\ result[i].body.customer.t = "object"
               \/ /\ Is400(result[i])
                  /\ DOMAIN result[i].body = {"error"}
            /\ result[i].kind = "redirect" <=> HoldsNoToken(session[i])
            /\ result[i].kind = "redirect" =>
                  result[i].location =
                     localizePath(<<"account", "login">>, context[i].i18n)

C4_Witness ==
    \E i, j \in Invocations :
        /\ pc[i] = "done" /\ Is200(result[i])
        /\ pc[j] = "done" /\ Is400(result[j])

\* C5: a query that returns a null customer is a failure: 400 with body
\* {error: 'Customer not found'}, never a 200.
C5_MissingCustomerIs400 ==
    \A i \in Invocations :
        (pc[i] = "done" /\ reply[i].kind = "data" /\ reply[i].customer.t = "null") =>
            /\ Is400(result[i])
            /\ result[i].body = [error |-> Str("Customer not found")]

C5_Witness ==
    \E i \in Invocations :
        /\ pc[i] = "done"
        /\ reply[i] = [kind |-> "data", customer |-> NullValue]
        /\ Is400(result[i])

\* C6: the request that follows a previous or next navigation carries the
\* start cursor (previous) or the end cursor (next) of the page-info the
\* remote returned for the page navigated from, unchanged.
C6_CursorRoundTrip ==
    \A j \in Invocations :
        navFrom[j].kind = "link" =>
            IF navFrom[j].direction = "previous"
            THEN /\ request[j].direction = "previous"
                 /\ request[j].cursor = navFrom[j].pageInfo.startCursor
                 /\ sent[j] # <<>> =>
                       sent[j][1].startCursor = navFrom[j].pageInfo.startCursor
            ELSE /\ request[j].direction = "next"
                 /\ request[j].cursor = navFrom[j].pageInfo.endCursor
                 /\ sent[j] # <<>> =>
                       sent[j][1].endCursor = navFrom[j].pageInfo.endCursor

\* The next direction alone: the end cursor of the response is the endCursor
\* variable of the following request.
NextCursorRoundTrip ==
    \A j \in Invocations :
        (navFrom[j].kind = "link" /\ navFrom[j].direction = "next") =>
            /\ request[j] = [direction |-> "next",
                             cursor |-> navFrom[j].pageInfo.endCursor]
            /\ sent[j] # <<>> =>
                  sent[j][1].endCursor = navFrom[j].pageInfo.endCursor

\* C7: a customer with no orders is rendered as the empty state and not the
\* table; a customer with orders is rendered as the paginated table with one
\* item per node, in order, and not the empty state.
C7_EmptyStateOrTable ==
    \A i \in Invocations :
        view[i] # None =>
            LET nodes == reply[i].customer.orders.nodes IN
            IF Len(nodes) = 0
            THEN view[i].content = [kind |-> "EmptyOrders"]
            ELSE /\ view[i].content.kind = "OrdersTable"
                 /\ Len(view[i].content.items) = Len(nodes)
                 /\ \A k \in 1..Len(nodes) :
                       view[i].content.items[k] =
                          [kind |-> "OrderItem", order |-> nodes[k].id]

C7_Witness ==
    \E i, j \in Invocations :
        /\ view[i] # None /\ view[i].content.kind = "EmptyOrders"
        /\ reply[i].customer.numberOfOrders = 0
        /\ view[j] # None /\ view[j].content.kind = "OrdersTable"
        /\ Len(view[j].content.items) = 2

\* C8: in the grid of CollectionTemplate the items at indices 0 to 7 are
\* eager and every item at index 8 or above is not; a list shorter than 8
\* has all its items eager.
C8_FirstEightEager ==
    grid # None =>
        \A k \in DOMAIN grid.items :
            LET item == grid.items[k] IN
            /\ k - 1 <= 7 =>
                  /\ item.loading = "eager"
                  /\ item.image # None => item.image.loading = "eager"
            /\ k - 1 >= 8 =>
                  /\ item.loading # "eager"
                  /\ item.image # None => item.image.loading # "eager"

C8_Witness ==
    /\ grid # None
    /\ Len(grid.items) >= 9
    /\ grid.items[8].image # None /\ grid.items[8].image.loading = "eager"
    /\ grid.items[9].image # None /\ grid.items[9].image.loading # "eager"

\* C9: with invocations interleaved, the variables of an invocation's query
\* come from its own session, context and request, its response carries the
\* customer its own query returned, and two invocations with the same inputs
\* and the same reply have the same outcome.
C9_NoCrossRequestState ==
    \A i \in Invocations :
        /\ sent[i] # <<>> =>
              LET v == sent[i][1] IN
              /\ "accessToken" \in DOMAIN session[i]
              /\ v.customerAccessToken = session[i].accessToken
              /\ v.country = context[i].storefront.i18n.country
              /\ v.language = context[i].storefront.i18n.language
              /\ \A c \in {"startCursor", "endCursor"} \cap DOMAIN v :
                    v[c] = request[i].cursor
        /\ (pc[i] = "done" /\ Is200(result[i])) =>
              /\ result[i].body.customer.numberOfOrders =
                    reply[i].customer.numberOfOrders
              /\ \A k \in DOMAIN reply[i].customer.orders.nodes :
                    result[i].body.customer.orders.nodes[k].id =
                       reply[i].customer.orders.nodes[k].id
        /\ \A j \in Invocations :
              ( /\ pc[i] = "done" /\ pc[j] = "done"
                /\ request[i] = request[j] /\ session[i] = session[j]
                /\ context[i] = context[j] /\ reply[i] = reply[j]
                /\ fault[i] = fault[j] ) =>
                    result[i] = result[j] /\ sent[i] = sent[j]

C9_Witness ==
    \E i, j \in Invocations :
        /\ pc[i] = "awaitQuery" /\ pc[j] = "done"
        /\ sent[i] # <<>> /\ sent[j] # <<>>
        /\ session[i].accessToken = "tokA" /\ session[j].accessToken = "tokB"
        /\ sent[i][1].customerAccessToken = "tokA"
        /\ sent[j][1].customerAccessToken = "tokB"
        /\ request[i].cursor # request[j].cursor
        /\ Is200(result[j])

\* C10: a throw while the pagination variables are built is caught like a
\* query failure: 400 with an error body and no query issued; a rejection of
\* the session read is not caught: no response, the value leaves the loader.
C10_CatchScope ==
    \A i \in Invocations :
        fault[i] # None =>
            IF fault[i].at = "pagination"
            THEN /\ pc[i] = "done"
                 /\ Is400(result[i])
                 /\ result[i].body =
                       [error |-> IF fault[i].error.t = "Error"
                                  THEN fault[i].error.message
                                  ELSE fault[i].error]
                 /\ escaped[i] = None
                 /\ sent[i] = <<>>
            ELSE /\ pc[i] = "thrown"
                 /\ result[i] = None
                 /\ escaped[i] = fault[i].error
                 /\ sent[i] = <<>>

C10_Witness ==
    \E i, j \in Invocations :
        /\ fault[i] # None /\ fault[i].at = "pagination" /\ Is400(result[i])
        /\ fault[j] # None /\ fault[j].at = "session" /\ pc[j] = "thrown"
        /\ ~HoldsNoToken(session[j])

====
